---------------------------- MODULE Spec2Model ----------------------------
(***************************************************************************)
(* PatientTrajectoryVisualizer (patient_trajectory/visualization.py).      *)
(*                                                                         *)
(* A caller holds a table df_in and a visualizer configured with           *)
(* selected_columns / rename_dict / drop_columns.  load_data(df_in) gives  *)
(* clean_df; plot_patient_timeline(clean_df, ...) walks the patients and   *)
(* their rows, drawing one segment per visited row, then sets the ticks,   *)
(* optionally saves, and returns the figure.                               *)
(*                                                                         *)
(* A table is [cols, rows]: the column labels in order and, per row, the   *)
(* cells in column order.  A cell is [t, n, s]:                            *)
(*   t = "na"   NaN / None                                                 *)
(*   t = "nat"  NaT, the missing marker of a datetime column               *)
(*   t = "int"  the number n                                               *)
(*   t = "str"  the string s                                               *)
(*   t = "iso"  the date string "yyyy-mm-dd" whose digits are n = yyyymmdd *)
(*   t = "ts"   a Timestamp, n days after 1970-01-01                       *)
(***************************************************************************)
EXTENDS Integers, Sequences, FiniteSets, TLC

VARIABLES
    df_in,             \* the caller's table object
    selected_columns,  \* self.selected_columns  [given, val]
    rename_dict,       \* self.rename_dict       [given, val]
    drop_columns,      \* self.drop_columns      [given, val]
    pc,                \* "start", "load_raised", "loaded", "rows", "returned", "plot_raised"
    clean_df,          \* what load_data returned
    args,              \* the arguments of the plot_patient_timeline call
    unique_patients,   \* df[pasient_col].unique()
    todo,              \* the (i, row) pairs the two loops have still to visit
    segments,          \* ax.plot calls so far
    annotations,       \* ax.annotate calls so far
    yticks,            \* ax.set_yticks
    yticklabels,       \* ax.set_yticklabels
    saved,             \* paths fig.savefig has written
    error              \* the exception that ended the last call, or "none"

config == <<selected_columns, rename_dict, drop_columns>>
plotvars == <<args, unique_patients, todo, segments, annotations, yticks, yticklabels, saved>>
vars == <<df_in, config, pc, clean_df, plotvars, error>>

---------------------------------------------------------------------------
(* Bounds *)

\* rows of the caller's table
MaxRows == 3

---------------------------------------------------------------------------
(* Cells *)

NA == [t |-> "na", n |-> 0, s |-> ""]
NaT == [t |-> "nat", n |-> 0, s |-> ""]
Int_(k) == [t |-> "int", n |-> k, s |-> ""]
Str_(x) == [t |-> "str", n |-> 0, s |-> x]
Iso(yyyymmdd) == [t |-> "iso", n |-> yyyymmdd, s |-> ""]
Ts(days) == [t |-> "ts", n |-> days, s |-> ""]

\* pd.notnull
notnull(c) == c.t \notin {"na", "nat"}

\* == on two cells of a column: a missing value equals nothing, itself included
CellEq(a, b) == notnull(a) /\ notnull(b) /\ a = b

\* an absent option (None) and a given one
None == [given |-> FALSE, val |-> <<>>]
Some(v) == [given |-> TRUE, val |-> v]

Range(q) == {q[k] : k \in 1..Len(q)}

---------------------------------------------------------------------------
(* Dates: pd.to_datetime(..., errors="coerce") on one cell *)

IsLeap(y) == (y % 4 = 0 /\ y % 100 # 0) \/ y % 400 = 0

DaysInMonth(y, m) ==
    IF m = 2 THEN (IF IsLeap(y) THEN 29 ELSE 28)
    ELSE IF m \in {4, 6, 9, 11} THEN 30 ELSE 31

\* days from 1970-01-01 to the civil date y-m-d (proleptic Gregorian)
DaysFromCivil(y, m, d) ==
    LET yy == IF m <= 2 THEN y - 1 ELSE y
        era == yy \div 400
        yoe == yy - era * 400
        mp == (m + 9) % 12
        doy == (153 * mp + 2) \div 5 + d - 1
        doe == yoe * 365 + yoe \div 4 - yoe \div 100 + doy
    IN  era * 146097 + doe - 719468

ValidCivil(y, m, d) == m \in 1..12 /\ d >= 1 /\ d <= DaysInMonth(y, m)

to_datetime(c) ==
    IF c.t = "ts" THEN c
    ELSE IF c.t = "iso" THEN
        LET y == c.n \div 10000
            m == (c.n \div 100) % 100
            d == c.n % 100
        IN  IF ValidCivil(y, m, d) THEN Ts(DaysFromCivil(y, m, d)) ELSE NaT
    ELSE NaT

---------------------------------------------------------------------------
(* Tables *)

ColIndex(cols, name) == CHOOSE k \in 1..Len(cols) : cols[k] = name

HasCol(tbl, name) == \E k \in 1..Len(tbl.cols) : tbl.cols[k] = name

\* row[name] of row number r
Cell(tbl, r, name) == tbl.rows[r][ColIndex(tbl.cols, name)]

\* df[names]: the named columns, in the order named
Project(tbl, names) ==
    [cols |-> names,
     rows |-> [r \in 1..Len(tbl.rows) |->
                 [k \in 1..Len(names) |-> Cell(tbl, r, names[k])]]]

\* df.rename(columns=d): labels that are keys of d are replaced, others kept
Rename(tbl, d) ==
    [cols |-> [k \in 1..Len(tbl.cols) |->
                 IF tbl.cols[k] \in DOMAIN d THEN d[tbl.cols[k]] ELSE tbl.cols[k]],
     rows |-> tbl.rows]

KeptIndexes(cols, names) == {k \in 1..Len(cols) : cols[k] \notin Range(names)}

RECURSIVE Pick(_, _, _)
\* the elements of q at the indexes of keep, in order, from index k on
Pick(q, keep, k) ==
    IF k > Len(q) THEN <<>>
    ELSE IF k \in keep THEN <<q[k]>> \o Pick(q, keep, k + 1)
    ELSE Pick(q, keep, k + 1)

\* df.drop(columns=names, errors="ignore")
Drop(tbl, names) ==
    LET keep == KeptIndexes(tbl.cols, names)
    IN  [cols |-> Pick(tbl.cols, keep, 1),
         rows |-> [r \in 1..Len(tbl.rows) |-> Pick(tbl.rows[r], keep, 1)]]

\* df[date_col] = pd.to_datetime(df[date_col], errors="coerce"), if the column exists
ParseColumn(tbl, date_col) ==
    IF ~HasCol(tbl, date_col) THEN tbl
    ELSE LET c == ColIndex(tbl.cols, date_col)
         IN  [cols |-> tbl.cols,
              rows |-> [r \in 1..Len(tbl.rows) |->
                          [tbl.rows[r] EXCEPT ![c] = to_datetime(@)]]]

ParseDates(tbl) == ParseColumn(ParseColumn(tbl, "episode_start_date"), "episode_end_date")


---------------------------------------------------------------------------
(* load_data *)

Identity(n) == [k \in 1..n |-> k]

Permutations_(n) == {p \in [1..n -> 1..n] : \A a, b \in 1..n : a # b => p[a] # p[b]}

\* the row orders df.sort_values(by="episode_start_date") may leave: the rows
\* with a start date in ascending order of it, rows of equal date in either
\* order (the default sort kind is not stable), then the rows whose start date
\* is missing, in their former order
SortedOrders(tbl) ==
    LET n == Len(tbl.rows)
        key(r) == Cell(tbl, r, "episode_start_date")
    IN  {p \in Permutations_(n) :
            \A a, b \in 1..n : a < b =>
                /\ notnull(key(p[b])) => notnull(key(p[a])) /\ key(p[a]).n <= key(p[b]).n
                /\ ~notnull(key(p[a])) => p[a] < p[b]}

\* RowOrders without the sort
RowOrdersUnsorted(tbl) == {Identity(Len(tbl.rows))}

\* step 5: the orders the rows may be returned in
RowOrders(tbl) ==
    IF HasCol(tbl, "episode_start_date") THEN SortedOrders(tbl)
    ELSE {Identity(Len(tbl.rows))}

Reorder(tbl, p) == [cols |-> tbl.cols, rows |-> [k \in 1..Len(tbl.rows) |-> tbl.rows[p[k]]]]

\* CopyFrame without the copy
CopyFrameAliased(tbl) == [tbl |-> tbl, shared |-> TRUE]

\* df = df.copy(): a frame is [tbl, shared], shared when it is the caller's object
CopyFrame(tbl) == [tbl |-> tbl, shared |-> FALSE]

\* df[self.selected_columns] raises KeyError when a selected label is missing
SelectRaises(tbl, sel) == sel.given /\ ~(Range(sel.val) \subseteq Range(tbl.cols))

\* ColumnSteps with the drop before the rename
ColumnStepsDropFirst(tbl, sel, ren, drp) ==
    LET t1 == IF sel.given THEN Project(tbl, sel.val) ELSE tbl
        t2 == IF drp.given THEN Drop(t1, drp.val) ELSE t1
    IN  IF ren.given THEN Rename(t2, ren.val) ELSE t2

\* steps 1-3 on the table: select, then rename, then drop
ColumnSteps(tbl, sel, ren, drp) ==
    LET t1 == IF sel.given THEN Project(tbl, sel.val) ELSE tbl
        t2 == IF ren.given THEN Rename(t1, ren.val) ELSE t1
    IN  IF drp.given THEN Drop(t2, drp.val) ELSE t2

\* steps 1-4 on a frame: each of select, rename and drop returns a new object;
\* the date conversion assigns into the frame it is given
Prepare(frame, sel, ren, drp) ==
    [tbl |-> ParseDates(ColumnSteps(frame.tbl, sel, ren, drp)),
     shared |-> frame.shared /\ ~sel.given /\ ~ren.given /\ ~drp.given]

---------------------------------------------------------------------------
(* plot_patient_timeline *)

DefaultColors == <<"red", "green", "blue", "orange", "purple", "brown", "cyan">>

\* MissingRequired without the check of age_col
MissingRequiredPatientOnly(tbl, a) ==
    IF ~HasCol(tbl, a.pasient_col) THEN a.pasient_col ELSE ""

\* the label the KeyError of the entry checks names, or "" when both are there
MissingRequired(tbl, a) ==
    IF ~HasCol(tbl, a.pasient_col) THEN a.pasient_col
    ELSE IF ~HasCol(tbl, a.age_col) THEN a.age_col
    ELSE ""

RECURSIVE Dedup(_, _)
\* the values of q in order of first appearance; acc holds those already met
Dedup(q, acc) ==
    IF q = <<>> THEN acc
    ELSE IF Head(q) \in Range(acc) THEN Dedup(Tail(q), acc)
    ELSE Dedup(Tail(q), Append(acc, Head(q)))

\* Unique in sorted order (numpy's unique) instead of order of first appearance
UniqueSorted(tbl, col) ==
    SortSeq(Dedup([r \in 1..Len(tbl.rows) |-> Cell(tbl, r, col)], <<>>),
            LAMBDA a, b : notnull(a) /\ (~notnull(b) \/ a.n < b.n))

\* df[col].unique(): NaN is one of the values, met once
Unique(tbl, col) == Dedup([r \in 1..Len(tbl.rows) |-> Cell(tbl, r, col)], <<>>)

RECURSIVE MatchingRows(_, _, _, _)
\* df[df[col] == patient_id]: the rows from r on whose cell compares equal
MatchingRows(tbl, col, patient_id, r) ==
    IF r > Len(tbl.rows) THEN <<>>
    ELSE IF CellEq(Cell(tbl, r, col), patient_id)
        THEN <<r>> \o MatchingRows(tbl, col, patient_id, r + 1)
    ELSE MatchingRows(tbl, col, patient_id, r + 1)

RECURSIVE Visits(_, _, _, _)
\* the (i, row) pairs of the nested loops, in the order they are visited
Visits(tbl, col, uniq, k) ==
    IF k > Len(uniq) THEN <<>>
    ELSE LET rs == MatchingRows(tbl, col, uniq[k], 1)
         IN  [j \in 1..Len(rs) |-> [i |-> k - 1, row |-> rs[j]]]
               \o Visits(tbl, col, uniq, k + 1)

\* EndVal that tests only the end date for a missing value
EndValEndOnly(tbl, r, start_val) ==
    IF HasCol(tbl, "episode_end_date") /\ HasCol(tbl, "episode_start_date") THEN
        LET e == Cell(tbl, r, "episode_end_date")
            b == Cell(tbl, r, "episode_start_date")
        IN  IF notnull(e)
            THEN [num |-> start_val * 146097 + (e.n - b.n) * 400, den |-> 146097]
            ELSE [num |-> start_val, den |-> 1]
    ELSE [num |-> start_val, den |-> 1]

\* end_val as the fraction num/den: start_val + duration_days / 365.2425,
\* where 365.2425 = 146097/400
EndVal(tbl, r, start_val) ==
    IF HasCol(tbl, "episode_end_date") /\ HasCol(tbl, "episode_start_date") THEN
        LET e == Cell(tbl, r, "episode_end_date")
            b == Cell(tbl, r, "episode_start_date")
        IN  IF notnull(e) /\ notnull(b)
            THEN [num |-> start_val * 146097 + (e.n - b.n) * 400, den |-> 146097]
            ELSE [num |-> start_val, den |-> 1]
    ELSE [num |-> start_val, den |-> 1]

\* Color without the lower bound: a negative index counts from the end of the list
ColorNoLowerBound(tbl, r, cluster_col, cluster_colors) ==
    IF HasCol(tbl, cluster_col) /\ notnull(Cell(tbl, r, cluster_col)) THEN
        LET cluster_idx == Cell(tbl, r, cluster_col).n - 1
        IN  IF cluster_idx < Len(cluster_colors) /\ -Len(cluster_colors) <= cluster_idx
            THEN cluster_colors[(cluster_idx % Len(cluster_colors)) + 1]
            ELSE "gray"
    ELSE "gray"

\* the colour of a segment; cluster labels are whole numbers, which int() keeps
Color(tbl, r, cluster_col, cluster_colors) ==
    IF HasCol(tbl, cluster_col) /\ notnull(Cell(tbl, r, cluster_col)) THEN
        LET cluster_idx == Cell(tbl, r, cluster_col).n - 1
        IN  IF 0 <= cluster_idx /\ cluster_idx < Len(cluster_colors)
            THEN cluster_colors[cluster_idx + 1]
            ELSE "gray"
    ELSE "gray"

\* str(value) inside the f-string
Format(c) == IF c.t = "str" THEN c.s ELSE ToString(c.n)

RECURSIVE AnnotationParts(_, _, _)
\* annotation_parts: one <<col, ": ", value>> per annotation column that the
\* row has with a non-missing value
AnnotationParts(tbl, r, cols) ==
    IF cols = <<>> THEN <<>>
    ELSE LET col == Head(cols)
             rest == AnnotationParts(tbl, r, Tail(cols))
         IN  IF HasCol(tbl, col) /\ notnull(Cell(tbl, r, col))
             THEN <<<<col, ": ", Format(Cell(tbl, r, col))>>>> \o rest
             ELSE rest

RECURSIVE Join(_, _)
\* sep.join(parts), as the sequence of its pieces
Join(sep, parts) ==
    IF parts = <<>> THEN <<>>
    ELSE IF Len(parts) = 1 THEN Head(parts)
    ELSE Head(parts) \o <<sep>> \o Join(sep, Tail(parts))

AnnotationText(tbl, r, cols) == Join("; ", AnnotationParts(tbl, r, cols))

---------------------------------------------------------------------------
(* The caller's inputs *)

InputCols ==
    <<"patient_id", "episode_start_date", "episode_end_date", "age", "cluster", "diagnosis">>

\* episode rows, cells in the order of InputCols
RowPool ==
    { <<Int_(5), Iso(20010101), Iso(20010601), Int_(0), Int_(1), NA>>,
      <<Int_(5), Iso(20050101), NA, Int_(4), Int_(0), Str_("B")>>,
      <<Int_(6), NA, Iso(20101231), Int_(50), NA, Str_("C")>>,
      <<Int_(6), Iso(20040229), Iso(20030301), Int_(33), Int_(8), Str_("C")>>,
      <<NA, Iso(20011301), Iso(20010601), Int_(7), Int_(2), Str_("B")>>,
      <<Int_(6), Str_("unknown"), Iso(20030230), Int_(30), Int_(3), NA>> }

Tables == {[cols |-> InputCols, rows |-> rs] :
              rs \in UNION {[1..n -> RowPool] : n \in 0..MaxRows}}

SelectedChoices ==
    { None,
      Some(<<"age", "patient_id", "episode_start_date", "diagnosis", "cluster">>),
      Some(<<"pasient", "age">>) }

RenameChoices ==
    { None,
      Some([patient_id |-> "pasient"]),
      Some([patient_id |-> "pasient", episode_end_date |-> "discharge", weight |-> "kg"]) }

DropChoices ==
    { None,
      Some(<<"patient_id", "cluster">>),
      Some(<<"episode_start_date", "discharge", "notes">>),
      Some(<<"age">>) }

NoArgs ==
    [pasient_col |-> "", age_col |-> "", cluster_col |-> "",
     annotation_cols |-> None, cluster_colors |-> None, save_path |-> None]

ArgChoices ==
    [pasient_col : {"pasient", "patient_id"},
     age_col : {"age"},
     cluster_col : {"cluster"},
     annotation_cols : {None, Some(<<"diagnosis", "cluster">>), Some(<<"notes", "diagnosis">>)},
     cluster_colors : {None, Some(<<"black", "gold">>)},
     save_path : {None, Some("plot.png")}]

EmptyTable == [cols |-> <<>>, rows |-> <<>>]

---------------------------------------------------------------------------
(* The state machine *)

Init ==
    /\ df_in \in Tables
    /\ selected_columns \in SelectedChoices
    /\ rename_dict \in RenameChoices
    /\ drop_columns \in DropChoices
    /\ pc = "start"
    /\ clean_df = EmptyTable
    /\ args = NoArgs
    /\ unique_patients = <<>>
    /\ todo = <<>>
    /\ segments = <<>>
    /\ annotations = <<>>
    /\ yticks = <<>>
    /\ yticklabels = <<>>
    /\ saved = {}
    /\ error = "none"

\* clean_df = viz.load_data(df_in)
LoadData ==
    /\ pc = "start"
    /\ LET frame == CopyFrame(df_in)
       IN  IF SelectRaises(frame.tbl, selected_columns)
           THEN /\ pc' = "load_raised"
                /\ error' = "KeyError"
                /\ UNCHANGED <<df_in, clean_df>>
           ELSE LET local == Prepare(frame, selected_columns, rename_dict, drop_columns)
                IN  /\ \E p \in RowOrders(local.tbl) : clean_df' = Reorder(local.tbl, p)
                    /\ df_in' = IF local.shared THEN local.tbl ELSE df_in
                    /\ pc' = "loaded"
                    /\ error' = "none"
    /\ UNCHANGED <<config, plotvars>>

\* cluster_colors and annotation_cols after their None defaults
Palette(a) == IF a.cluster_colors.given THEN a.cluster_colors.val ELSE DefaultColors
AnnotationCols(a) == IF a.annotation_cols.given THEN a.annotation_cols.val ELSE <<>>

\* viz.plot_patient_timeline(clean_df, ...): the entry checks, the defaults,
\* unique_patients and the new figure
PlotEnter(a) ==
    /\ pc = "loaded"
    /\ args' = a
    /\ IF MissingRequired(clean_df, a) # ""
       THEN /\ pc' = "plot_raised"
            /\ error' = "KeyError"
            /\ UNCHANGED <<unique_patients, todo>>
       ELSE /\ unique_patients' = Unique(clean_df, a.pasient_col)
            /\ todo' = Visits(clean_df, a.pasient_col, unique_patients', 1)
            /\ pc' = "rows"
            /\ error' = "none"
    /\ UNCHANGED <<df_in, config, clean_df, segments, annotations, yticks, yticklabels, saved>>

\* one pass of the inner loop body: the segment of a row and its annotation
PlotRow ==
    /\ pc = "rows"
    /\ todo # <<>>
    /\ LET i == Head(todo).i
           r == Head(todo).row
       IN  IF ~HasCol(clean_df, args.age_col)
           THEN /\ pc' = "plot_raised"
                /\ error' = "KeyError"
                /\ UNCHANGED <<todo, segments, annotations>>
           ELSE LET start_val == Cell(clean_df, r, args.age_col).n
                    end_val == EndVal(clean_df, r, start_val)
                    color == Color(clean_df, r, args.cluster_col, Palette(args))
                    annotation_text == AnnotationText(clean_df, r, AnnotationCols(args))
                IN  /\ segments' = Append(segments,
                           [x0 |-> start_val, x1 |-> end_val, y |-> i,
                            color |-> color, row |-> r])
                    /\ annotations' =
                           IF annotation_text # <<>>
                           THEN Append(annotations,
                                    [text |-> annotation_text, x |-> start_val,
                                     y |-> i, row |-> r])
                           ELSE annotations
                    /\ todo' = Tail(todo)
                    /\ UNCHANGED <<pc, error>>
    /\ UNCHANGED <<df_in, config, clean_df, args, unique_patients, yticks, yticklabels, saved>>

\* after the loops: ticks, labels, the optional savefig, and the return
PlotFinish ==
    /\ pc = "rows"
    /\ todo = <<>>
    /\ yticks' = [k \in 1..Len(unique_patients) |-> k - 1]
    /\ yticklabels' = unique_patients
    /\ saved' = IF args.save_path.given THEN saved \cup {args.save_path.val} ELSE saved
    /\ pc' = "returned"
    /\ UNCHANGED <<df_in, config, clean_df, args, unique_patients, todo, segments,
                   annotations, error>>

Next ==
    \/ LoadData
    \/ \E a \in ArgChoices : PlotEnter(a)
    \/ PlotRow
    \/ PlotFinish

Spec == Init /\ [][Next]_vars

---------------------------------------------------------------------------
(* Properties *)

Loaded == pc \notin {"start", "load_raised"}
Entered == pc \in {"rows", "returned", "plot_raised"}
Drawing == pc \in {"rows", "returned"}
RowsOf(tbl) == 1..Len(tbl.rows)
SegmentsOf == Range(segments)
DateCols == {"episode_start_date", "episode_end_date"}

\* the labels load_data selects, the label a selected column leaves the rename
\* with, and whether the drop list names a label
SelectedLabels ==
    IF selected_columns.given THEN Range(selected_columns.val) ELSE Range(df_in.cols)
NewName(c) ==
    IF rename_dict.given /\ c \in DOMAIN rename_dict.val THEN rename_dict.val[c] ELSE c
InDropList(n) == drop_columns.given /\ n \in Range(drop_columns.val)

\* the cells of column c of the input as load_data returns them under label n
Carried(c, n) ==
    {IF n \in DateCols THEN to_datetime(Cell(df_in, r, c)) ELSE Cell(df_in, r, c) :
        r \in RowsOf(df_in)}

\* C1: when load_data returns, it has selected by original label, then renames, then drops by the
\* label after the rename.  Of the selected columns exactly those whose new
\* label is not in drop_columns are returned, each under its new label and
\* with its own cells, and not under an old label that the rename replaced; a
\* column whose old label is in drop_columns and whose new label is not is
\* returned under the new label.
C1_SelectRenameDrop ==
    pc = "loaded" =>
        /\ SelectedLabels \subseteq Range(df_in.cols)
        /\ Range(clean_df.cols) \subseteq {NewName(c) : c \in SelectedLabels}
        /\ \A c \in SelectedLabels :
            /\ HasCol(clean_df, NewName(c)) <=> ~InDropList(NewName(c))
            /\ NewName(c) # c => ~HasCol(clean_df, c)
            /\ InDropList(c) /\ ~InDropList(NewName(c)) => HasCol(clean_df, NewName(c))
            /\ HasCol(clean_df, NewName(c)) =>
                  {Cell(clean_df, r, NewName(c)) : r \in RowsOf(clean_df)}
                      = Carried(c, NewName(c))

\* a load with a selection, where patient_id is renamed to pasient and
\* patient_id is in the drop list, has returned the column as pasient
C1_Witness ==
    /\ pc = "loaded"
    /\ selected_columns.given
    /\ InDropList("patient_id")
    /\ NewName("patient_id") = "pasient"
    /\ HasCol(clean_df, "pasient")
    /\ ~HasCol(clean_df, "patient_id")
    /\ Len(clean_df.rows) = MaxRows

\* C2: when the table lacks pasient_col or age_col, plot_patient_timeline
\* ends with KeyError having drawn no segment, emitted no annotation, set no
\* tick, written no file and returned nothing.
C2_MissingColumnRaisesFirst ==
    (Entered /\ (~HasCol(clean_df, args.pasient_col) \/ ~HasCol(clean_df, args.age_col))) =>
        /\ pc = "plot_raised"
        /\ error = "KeyError"
        /\ segments = <<>>
        /\ annotations = <<>>
        /\ yticks = <<>>
        /\ saved = {}

\* a call with a save path on a table with rows and the patient column but
\* without the age column has raised
C2_Witness ==
    /\ pc = "plot_raised"
    /\ HasCol(clean_df, args.pasient_col)
    /\ ~HasCol(clean_df, args.age_col)
    /\ Len(clean_df.rows) > 0
    /\ args.save_path.given

HasBothDateCols == HasCol(clean_df, "episode_end_date") /\ HasCol(clean_df, "episode_start_date")
BothDates(r) ==
    /\ HasBothDateCols
    /\ notnull(Cell(clean_df, r, "episode_end_date"))
    /\ notnull(Cell(clean_df, r, "episode_start_date"))
DurationDays(r) ==
    Cell(clean_df, r, "episode_end_date").n - Cell(clean_df, r, "episode_start_date").n

\* C3: every segment starts at its row's start value; with both date columns
\* and both dates of the row present its end is start + days/365.2425, days
\* being end date minus start date, and in every other case its end is its
\* start.  (The end is the fraction x1.num/x1.den, and 365.2425 = 146097/400.)
C3_SegmentExtent ==
    \A k \in 1..Len(segments) :
        LET sg == segments[k]
        IN  /\ sg.x0 = Cell(clean_df, sg.row, args.age_col).n
            /\ IF BothDates(sg.row)
               THEN /\ sg.x1.den = 146097
                    /\ sg.x1.num = sg.x0 * 146097 + DurationDays(sg.row) * 400
               ELSE sg.x1.num = sg.x0 * sg.x1.den

\* a figure with a segment of positive duration, one of negative duration, one
\* of a row with a missing date, all with the date columns there
C3_Witness ==
    /\ pc = "returned"
    /\ \E sg \in SegmentsOf : BothDates(sg.row) /\ DurationDays(sg.row) > 0
    /\ \E sg \in SegmentsOf : BothDates(sg.row) /\ DurationDays(sg.row) < 0
    /\ \E sg \in SegmentsOf :
          HasBothDateCols /\ ~notnull(Cell(clean_df, sg.row, "episode_start_date"))
                          /\ notnull(Cell(clean_df, sg.row, "episode_end_date"))

ClusterOf(r) == Cell(clean_df, r, args.cluster_col)
ClusterInRange(r) ==
    /\ HasCol(clean_df, args.cluster_col)
    /\ notnull(ClusterOf(r))
    /\ 1 <= ClusterOf(r).n
    /\ ClusterOf(r).n <= Len(Palette(args))

\* C4: a segment has the colour palette[cluster - 1] (the cluster-th of the
\* list) exactly when the cluster column exists, the row's cluster is present
\* and 1 <= cluster <= len(palette); otherwise it is "gray"; the call raises
\* nothing while it draws.
C4_SegmentColour ==
    /\ \A k \in 1..Len(segments) :
          IF ClusterInRange(segments[k].row)
          THEN segments[k].color = Palette(args)[ClusterOf(segments[k].row).n]
          ELSE segments[k].color = "gray"
    /\ Drawing => error = "none"

\* under the two-colour palette: cluster 1 drawn in its first colour, cluster 0
\* and cluster 3 drawn gray
C4_Witness ==
    /\ args.cluster_colors.given
    /\ HasCol(clean_df, args.cluster_col)
    /\ \E sg \in SegmentsOf : ClusterOf(sg.row) = Int_(1) /\ sg.color = "black"
    /\ \E sg \in SegmentsOf : ClusterOf(sg.row) = Int_(0) /\ sg.color = "gray"
    /\ \E sg \in SegmentsOf : ClusterOf(sg.row) = Int_(3) /\ sg.color = "gray"

StartDate(tbl, r) == Cell(tbl, r, "episode_start_date")

\* C5: when load_data returns, if the table it returns has an episode_start_date column, no row
\* has a later start date than a row after it, missing start dates included
\* in the table.
C5_SortedByStartDate ==
    (pc = "loaded" /\ HasCol(clean_df, "episode_start_date")) =>
        \A a, b \in RowsOf(clean_df) :
            (a < b /\ notnull(StartDate(clean_df, a)) /\ notnull(StartDate(clean_df, b)))
                => StartDate(clean_df, a).n <= StartDate(clean_df, b).n

\* a load of three rows whose first start date is later than the second's and
\* whose third is unparsable
C5_Witness ==
    /\ pc = "loaded"
    /\ HasCol(clean_df, "episode_start_date")
    /\ Len(df_in.rows) = 3
    /\ notnull(to_datetime(StartDate(df_in, 1)))
    /\ notnull(to_datetime(StartDate(df_in, 2)))
    /\ to_datetime(StartDate(df_in, 1)).n > to_datetime(StartDate(df_in, 2)).n
    /\ StartDate(df_in, 3).t \in {"iso", "str"}
    /\ StartDate(clean_df, 3) = NaT

PatientOf(r) == Cell(clean_df, r, args.pasient_col)
SegmentsOfRow(r) == {k \in 1..Len(segments) : segments[k].row = r}
AnnotationsOfRow(r) == {k \in 1..Len(annotations) : annotations[k].row = r}
EndsAtStart(sg) == sg.x1.num = sg.x0 * sg.x1.den

\* C6: a returned figure has exactly one segment per row of the table, rows
\* with a missing patient identifier included, and as many y ticks as the
\* patient column has distinct values.
C6_OneSegmentPerRow ==
    pc = "returned" =>
        /\ Len(segments) = Len(clean_df.rows)
        /\ \A r \in RowsOf(clean_df) : Cardinality(SegmentsOfRow(r)) = 1
        /\ Len(yticks) = Cardinality({PatientOf(r) : r \in RowsOf(clean_df)})

\* what holds of C6: one segment per row whose patient identifier is present,
\* none for the other rows, one tick per distinct value (NaN being one)
SegmentsPerIdentifiedRow ==
    pc = "returned" =>
        /\ \A r \in RowsOf(clean_df) :
              Cardinality(SegmentsOfRow(r)) = IF notnull(PatientOf(r)) THEN 1 ELSE 0
        /\ Len(yticks) = Cardinality({PatientOf(r) : r \in RowsOf(clean_df)})

HasMissingDate(r) ==
    \E col \in DateCols : HasCol(clean_df, col) /\ Cell(clean_df, r, col) = NaT

\* C7: load_data raises on no date value; every cell of a date column it
\* returns is a Timestamp or NaT; it returns as many rows as it was given; and
\* a row with a date coerced to NaT is drawn as a segment that ends at its start.
C7_CoercedDatesKeptAndDrawn ==
    /\ pc = "load_raised" => SelectRaises(df_in, selected_columns)
    /\ Loaded =>
          /\ Len(clean_df.rows) = Len(df_in.rows)
          /\ \A col \in DateCols : \A r \in RowsOf(clean_df) :
                HasCol(clean_df, col) => Cell(clean_df, r, col).t \in {"ts", "nat"}
    /\ pc = "returned" =>
          \A r \in RowsOf(clean_df) :
              HasMissingDate(r) => \E k \in SegmentsOfRow(r) : EndsAtStart(segments[k])

\* what holds of C7: the load part, and the segment of a row with a NaT date
\* ends at its start whenever the row is drawn
CoercedDatesKept ==
    /\ pc = "load_raised" => SelectRaises(df_in, selected_columns)
    /\ Loaded =>
          /\ Len(clean_df.rows) = Len(df_in.rows)
          /\ \A col \in DateCols : \A r \in RowsOf(clean_df) :
                HasCol(clean_df, col) => Cell(clean_df, r, col).t \in {"ts", "nat"}
    /\ \A sg \in SegmentsOf : HasMissingDate(sg.row) => EndsAtStart(sg)

\* C8: no step changes the caller's table or the visualizer's configuration.
C8_InputUnchanged == [][df_in' = df_in /\ config' = config]_vars

\* a load with no selection, rename or drop has returned a table whose start
\* dates are Timestamps while the caller's are still strings, in another order
C8_Witness ==
    /\ pc = "loaded"
    /\ ~selected_columns.given /\ ~rename_dict.given /\ ~drop_columns.given
    /\ Len(df_in.rows) = 2
    /\ StartDate(df_in, 1) = Iso(20050101)
    /\ StartDate(df_in, 2) = Iso(20010101)
    /\ StartDate(clean_df, 1).t = "ts"
    /\ StartDate(clean_df, 1) = to_datetime(StartDate(df_in, 2))

\* the annotation columns, in annotation_cols order, that row r has a value in
PresentAnnotationCols(r) ==
    SelectSeq(AnnotationCols(args),
              LAMBDA col : HasCol(clean_df, col) /\ notnull(Cell(clean_df, r, col)))

\* C9: in a returned figure every row has one segment, and it has an annotation
\* exactly when one of annotation_cols exists with a non-missing value in the
\* row; the annotation is at (start, y) of the segment and its text is the
\* "col: value" parts of those columns, in annotation_cols order, joined by "; ".
C9_AnnotationIffValue ==
    pc = "returned" =>
        \A r \in RowsOf(clean_df) :
            /\ Cardinality(SegmentsOfRow(r)) = 1
            /\ Cardinality(AnnotationsOfRow(r)) = IF PresentAnnotationCols(r) # <<>> THEN 1 ELSE 0
            /\ \A k \in AnnotationsOfRow(r) :
                  LET an == annotations[k]
                      present == PresentAnnotationCols(r)
                  IN  /\ \E j \in SegmentsOfRow(r) :
                            an.x = segments[j].x0 /\ an.y = segments[j].y
                      /\ Len(an.text) = 4 * Len(present) - 1
                      /\ \A m \in 1..Len(present) :
                            /\ an.text[4 * m - 3] = present[m]
                            /\ an.text[4 * m - 2] = ": "
                            /\ an.text[4 * m - 1] = Format(Cell(clean_df, r, present[m]))
                            /\ m > 1 => an.text[4 * m - 4] = "; "

\* what holds of C9: the same of every row that is drawn
AnnotationOfDrawnRows ==
    \A sk \in 1..Len(segments) :
        LET r == segments[sk].row
            present == PresentAnnotationCols(r)
        IN  /\ Cardinality(AnnotationsOfRow(r)) = IF present # <<>> THEN 1 ELSE 0
            /\ \A k \in AnnotationsOfRow(r) :
                  LET an == annotations[k]
                  IN  /\ an.x = segments[sk].x0 /\ an.y = segments[sk].y
                      /\ Len(an.text) = 4 * Len(present) - 1
                      /\ \A m \in 1..Len(present) :
                            /\ an.text[4 * m - 3] = present[m]
                            /\ an.text[4 * m - 2] = ": "
                            /\ an.text[4 * m - 1] = Format(Cell(clean_df, r, present[m]))
                            /\ m > 1 => an.text[4 * m - 4] = "; "

\* the first row holding the patient value of row r, and the number of values
\* that first appear before it
IsFirstRow(a) == \A b \in 1..(a - 1) : PatientOf(b) # PatientOf(a)
FirstRow(r) == CHOOSE a \in 1..r : IsFirstRow(a) /\ PatientOf(a) = PatientOf(r)
PatientNumber(r) == Cardinality({a \in 1..(FirstRow(r) - 1) : IsFirstRow(a)})

\* C10: in a returned figure patients are numbered 0, 1, 2, ... in the order
\* their identifier first appears in the rows of the table; every segment is at the y of its row's
\* patient number, so segments of one patient share a y and segments of
\* different patients do not; tick k is at k and labelled with the k-th identifier.
C10_PatientOrder ==
    pc = "returned" =>
        /\ \A k \in 1..Len(segments) : segments[k].y = PatientNumber(segments[k].row)
        /\ \A j, k \in 1..Len(segments) :
              (segments[j].y = segments[k].y)
                  <=> (PatientOf(segments[j].row) = PatientOf(segments[k].row))
        /\ Len(yticks) = Cardinality({r \in RowsOf(clean_df) : IsFirstRow(r)})
        /\ Len(yticklabels) = Len(yticks)
        /\ \A r \in RowsOf(clean_df) :
              /\ yticks[PatientNumber(r) + 1] = PatientNumber(r)
              /\ yticklabels[PatientNumber(r) + 1] = PatientOf(r)

\* a returned figure of three rows where the patient of the first and third
\* row differs from the patient of the second, which has the larger identifier
\* or the smaller
C10_Witness ==
    /\ pc = "returned"
    /\ Len(segments) = 3
    /\ PatientOf(1) = PatientOf(3)
    /\ PatientOf(1) # PatientOf(2)
    /\ \E sa, sb, sc \in SegmentsOf :
          /\ sa.row = 1 /\ sb.row = 2 /\ sc.row = 3
          /\ sa.y = 0 /\ sc.y = 0 /\ sb.y = 1
    /\ PatientOf(1).n > PatientOf(2).n

=============================================================================
